---- MODULE Spec2Model ----
(***************************************************************************)
(* A model of pyflowreg_session_gui: the LocalRunner process supervisor    *)
(* (local_runner.py), the worker script it launches (RUNNER_SCRIPT), the   *)
(* YAML serialisation with relative-path rewriting (serialization.py) and  *)
(* the reflective form generator (config_form.py).                         *)
(***************************************************************************)
EXTENDS Integers, Sequences, FiniteSets, TLC

VARIABLES
    \* ---- LocalRunner (local_runner.py) ----
    process,      \* self._process: 0 for None, else the id of the QProcess held
    tmpdir,       \* self._tmpdir: 0 for None, else the id of the TemporaryDirectory held
    attempts,     \* number of start() calls that got past the is_running() guard
    pstate,       \* QProcess.state() of every QProcess created: "None" before creation
    killed,       \* the QProcesses on which kill() was called while they were alive
    tmpExists,    \* the temporary directories that exist on disk
    reads,        \* number of readyRead signals delivered so far
    outbuf,       \* unread standard output held by each QProcess
    errbuf,       \* unread standard error held by each QProcess
    runStarted,   \* the attempts whose start() emitted run_started
    runFinished,  \* per QProcess: the codes run_finished was emitted with by its finished handler
    runFailed,    \* per QProcess: the codes run_failed was emitted with by its finished handler
    op,           \* the operation or handler that ran last, and how it ended
    emitted,      \* the signals emitted by that operation, in order
    \* ---- the worker script (RUNNER_SCRIPT) ----
    wargv,        \* sys.argv of the worker
    wpc,          \* where the worker is: "off", "load", "run", "exited"
    wstep,        \* number of stage calls of main() made so far
    wtrace,       \* the calls made so far, with their arguments and how they ended
    wresult,      \* what the last run_stage2 returned: <<middle_idx, displacements>>
    wexit,        \* the worker's exit code, NoCode while it runs
    \* ---- serialize_config_to_yaml (serialization.py) ----
    ycfg,         \* model_to_dict(config): field name -> value
    yprefer,      \* prefer_relative
    ywritten,     \* the mapping handed to yaml.safe_dump
    ypc,          \* "off", "called", "written"
    \* ---- SessionConfigForm (config_form.py) ----
    fclass,       \* iter_model_fields(session_config_cls): a sequence of field specs
    fpc,          \* "off", "class" (not constructed yet), "built", "failed"
    fbind,        \* self._bindings: field name -> binding, with its editor's content
    fop,          \* the method that ran last, its argument and the exception it raised
    fgot,         \* what get_form_data() returned last: field name -> value
    fedits        \* how often the user has typed into or switched an editor

runnerVars == <<process, tmpdir, attempts, pstate, killed, tmpExists,
                reads, outbuf, errbuf, runStarted, runFinished, runFailed, op, emitted>>

workerVars == <<wargv, wpc, wstep, wtrace, wresult, wexit>>

yamlVars == <<ycfg, yprefer, ywritten, ypc>>

formVars == <<fclass, fpc, fbind, fop, fgot, fedits>>

vars == <<runnerVars, workerVars, yamlVars, formVars>>

----------------------------------------------------------------------------
(* Bounds *)

\* start() calls that get past the guard in one behaviour
MaxRuns == 2
\* readyRead signals delivered in one behaviour
MaxReads == 1

\* largest middle_idx run_stage2 returns
MaxMiddleIdx == 1

\* longest text of the root field
MaxRootLen == 2
\* longest text of the other path fields
MaxPathLen == 5

\* edits a user makes in the editors of a form in one behaviour
MaxEdits == 1

Procs == 1..MaxRuns

\* exit codes a subprocess may end with: success, a Python exception, a signal number
ExitCodes == {0, 1, 9}
ExitStatuses == {"NormalExit", "CrashExit"}

\* chunks of output that become readable at once
Chunks == {<<"a", " ", "\n">>, <<"\n">>, <<"a">>}

----------------------------------------------------------------------------
(* Text helpers: str.rstrip *)

Whitespace == {" ", "\n", "\t"}

RECURSIVE RStripChars(_, _)
RStripChars(s, chars) ==
    IF s = <<>> THEN <<>>
    ELSE IF s[Len(s)] \in chars THEN RStripChars(SubSeq(s, 1, Len(s) - 1), chars)
    ELSE s

RStripNewlinesAsWhitespace(s) == RStripChars(s, {" ", "\n", "\t"})

\* data.rstrip("\n")
RStripNewlines(s) == RStripChars(s, {"\n"})
\* data.rstrip()
RStrip(s) == RStripChars(s, Whitespace)

----------------------------------------------------------------------------
(* LocalRunner *)

NoSignals == <<>>
NoCode == -1

\* A signal emission: run_finished carries an exit code, run_failed and
\* log_emitted a text, run_started nothing. A text is a sequence of characters
\* and of the placeholder "{exit_code}", whose value is in the code field.
Sig(name, code, text) == [sig |-> name, code |-> code, text |-> text]

\* f"Local run failed with exit code {exit_code}."
FailedMessage == <<"Local run failed with exit code ", "{exit_code}", ".">>

\* The record of the operation that ran last. p: the QProcess it concerned (0:
\* none); raised: the exception it raised; waited: what waitForStarted found;
\* exit_code, exit_status: the arguments of finished; chunk: the output that
\* became readable.
Op(name, p) ==
    [name |-> name, p |-> p, raised |-> "no", waited |-> "not reached",
     exit_code |-> NoCode, exit_status |-> "none", chunk |-> <<>>]

\* is_running(): a process is held and its state is not NotRunning
is_running == process # 0 /\ pstate[process] # "NotRunning"

RunnerInit ==
    /\ process = 0
    /\ tmpdir = 0
    /\ attempts = 0
    /\ pstate = [p \in Procs |-> "None"]
    /\ killed = {}
    /\ reads = 0
    /\ tmpExists = {}
    /\ outbuf = [p \in Procs |-> <<>>]
    /\ errbuf = [p \in Procs |-> <<>>]
    /\ runStarted = {}
    /\ runFinished = [p \in Procs |-> <<>>]
    /\ runFailed = [p \in Procs |-> <<>>]
    /\ op = Op("init", 0)
    /\ emitted = NoSignals

\* start() while is_running(): raise RuntimeError before anything else is done
StartRejected ==
    /\ op' = [Op("start", 0) EXCEPT !.raised = "already running"]
    /\ emitted' = NoSignals
    /\ UNCHANGED <<process, tmpdir, attempts, pstate, killed, tmpExists,
                   reads, outbuf, errbuf, runStarted, runFinished, runFailed>>

\* The directories on disk once self._tmpdir is rebound to the new directory a:
\* the TemporaryDirectory that loses its last reference is removed by its
\* finalizer when the interpreter collects it (collected \in BOOLEAN).
DirsAfterRebind(a, collected) ==
    (IF tmpdir # 0 /\ collected THEN tmpExists \ {tmpdir} ELSE tmpExists) \cup {a}

CleanupKeepsProcess(held, dirs) ==
    [tmpdir |-> 0, process |-> process,
     dirs |-> IF held # 0 THEN dirs \ {held} ELSE dirs]

CleanupKeepsDirectory(held, dirs) == [tmpdir |-> 0, process |-> 0, dirs |-> dirs]

\* _cleanup() with self._tmpdir = held and the directories dirs on disk: the held
\* directory is removed, directory and process are forgotten
Cleanup(held, dirs) ==
    [tmpdir |-> 0, process |-> 0,
     dirs |-> IF held # 0 THEN dirs \ {held} ELSE dirs]

\* start() past the guard. serialized: serialize_config_to_yaml returned (FALSE: it
\* raised); waited: what process.waitForStarted(5000) found.
StartAccepted(serialized, waited, collected) ==
    LET a == attempts + 1 IN
    /\ attempts < MaxRuns
    /\ attempts' = a
    /\ UNCHANGED <<killed, reads, outbuf, errbuf, runFinished, runFailed>>
    /\ IF ~serialized
       THEN \* the exception leaves start() after self._tmpdir was assigned
            /\ tmpdir' = a
            /\ tmpExists' = DirsAfterRebind(a, collected)
            /\ op' = [Op("start", 0) EXCEPT !.raised = "serialize failed"]
            /\ emitted' = NoSignals
            /\ UNCHANGED <<process, pstate, runStarted>>
       ELSE IF waited = "started"
       THEN /\ tmpdir' = a
            /\ tmpExists' = DirsAfterRebind(a, collected)
            /\ process' = a
            /\ pstate' = [pstate EXCEPT ![a] = "Running"]
            /\ runStarted' = runStarted \cup {a}
            /\ op' = [Op("start", a) EXCEPT !.waited = waited]
            /\ emitted' = <<Sig("run_started", NoCode, <<>>)>>
       ELSE \* waitForStarted returned False: _cleanup(), then RuntimeError
            LET c == Cleanup(a, DirsAfterRebind(a, collected)) IN
            /\ tmpdir' = c.tmpdir
            /\ tmpExists' = c.dirs
            /\ process' = c.process
            /\ pstate' = [pstate EXCEPT ![a] =
                              IF waited = "failed" THEN "NotRunning" ELSE "Starting"]
            /\ op' = [Op("start", a) EXCEPT !.raised = "failed to start",
                                             !.waited = waited]
            /\ emitted' = NoSignals
            /\ UNCHANGED runStarted

WaitOutcomes == {"started", "failed", "timeout"}

StartUnguarded(serialized, waited, collected) ==
    StartAccepted(serialized, waited, collected)

\* start(config, mode)
Start(serialized, waited, collected) ==
    IF is_running THEN StartRejected
    ELSE StartAccepted(serialized, waited, collected)

TerminateKillsNothing ==
    /\ op' = Op("terminate", process)
    /\ emitted' = NoSignals
    /\ UNCHANGED <<process, tmpdir, attempts, pstate, killed, tmpExists,
                   reads, outbuf, errbuf, runStarted, runFinished, runFailed>>

\* terminate(): kill the held process, if any
Terminate ==
    /\ killed' = IF process # 0 /\ pstate[process] # "NotRunning"
                 THEN killed \cup {process} ELSE killed
    /\ op' = Op("terminate", process)
    /\ emitted' = NoSignals
    /\ UNCHANGED <<process, tmpdir, attempts, pstate, tmpExists,
                   reads, outbuf, errbuf, runStarted, runFinished, runFailed>>

FinishedSignalsAlwaysFailed(exit_code) ==
    <<Sig("run_failed", exit_code, FailedMessage), Sig("run_finished", exit_code, <<>>)>>

\* the signals _on_finished emits, in order
FinishedSignals(exit_code) ==
    (IF exit_code # 0 THEN <<Sig("run_failed", exit_code, FailedMessage)>> ELSE <<>>)
        \o <<Sig("run_finished", exit_code, <<>>)>>

\* _on_finished(exit_code, _exit_status), the slot of p's finished signal
OnFinished(p, exit_code, exit_status) ==
    /\ emitted' = FinishedSignals(exit_code)
    /\ runFailed' = [runFailed EXCEPT ![p] =
                        IF exit_code # 0 THEN Append(@, exit_code) ELSE @]
    /\ runFinished' = [runFinished EXCEPT ![p] = Append(@, exit_code)]
    /\ LET c == Cleanup(tmpdir, tmpExists) IN
         /\ tmpExists' = c.dirs
         /\ tmpdir' = c.tmpdir
         /\ process' = c.process

\* The subprocess of QProcess p exits: the QProcess goes to NotRunning and emits
\* finished(exit_code, exit_status), which runs _on_finished.
ProcessFinished(p, exit_code, exit_status) ==
    /\ pstate[p] = "Running"
    /\ pstate' = [pstate EXCEPT ![p] = "NotRunning"]
    /\ OnFinished(p, exit_code, exit_status)
    /\ op' = [Op("finished", p) EXCEPT !.exit_code = exit_code,
                                        !.exit_status = exit_status]
    /\ UNCHANGED <<attempts, killed, reads, outbuf, errbuf, runStarted>>

\* A QProcess whose start() gave up waiting gets started after all: its started
\* signal has no slot.
LateStarted(p) ==
    /\ pstate[p] = "Starting"
    /\ pstate' = [pstate EXCEPT ![p] = "Running"]
    /\ op' = Op("late started", p)
    /\ emitted' = NoSignals
    /\ UNCHANGED <<process, tmpdir, attempts, killed, tmpExists,
                   reads, outbuf, errbuf, runStarted, runFinished, runFailed>>

\* ... or fails to start: errorOccurred has no slot, finished is not emitted.
LateFailed(p) ==
    /\ pstate[p] = "Starting"
    /\ pstate' = [pstate EXCEPT ![p] = "NotRunning"]
    /\ op' = Op("late failed", p)
    /\ emitted' = NoSignals
    /\ UNCHANGED <<process, tmpdir, attempts, killed, tmpExists,
                   reads, outbuf, errbuf, runStarted, runFinished, runFailed>>

\* _on_stdout(): read everything the held process has on standard output
OnStdout(buf) ==
    IF process = 0
    THEN /\ emitted' = NoSignals
         /\ outbuf' = buf
    ELSE LET data == buf[process] IN
         /\ outbuf' = [buf EXCEPT ![process] = <<>>]
         /\ emitted' = IF data # <<>>
                       THEN <<Sig("log_emitted", NoCode, RStripNewlines(data))>>
                       ELSE NoSignals

StderrPrefix == <<"[", "s", "t", "d", "e", "r", "r", "]", " ">>

\* _on_stderr(): the same for standard error, prefixed
OnStderr(buf) ==
    IF process = 0
    THEN /\ emitted' = NoSignals
         /\ errbuf' = buf
    ELSE LET data == buf[process] IN
         /\ errbuf' = [buf EXCEPT ![process] = <<>>]
         /\ emitted' = IF data # <<>>
                       THEN <<Sig("log_emitted", NoCode, StderrPrefix \o RStrip(data))>>
                       ELSE NoSignals

\* QProcess p buffers a chunk of standard output and emits readyReadStandardOutput
ReadyReadStdout(p, chunk) ==
    /\ pstate[p] = "Running"
    /\ reads < MaxReads
    /\ reads' = reads + 1
    /\ OnStdout([outbuf EXCEPT ![p] = @ \o chunk])
    /\ op' = [Op("stdout", p) EXCEPT !.chunk = chunk]
    /\ UNCHANGED <<process, tmpdir, attempts, pstate, killed, tmpExists,
                   errbuf, runStarted, runFinished, runFailed>>

ReadyReadStderr(p, chunk) ==
    /\ pstate[p] = "Running"
    /\ reads < MaxReads
    /\ reads' = reads + 1
    /\ OnStderr([errbuf EXCEPT ![p] = @ \o chunk])
    /\ op' = [Op("stderr", p) EXCEPT !.chunk = chunk]
    /\ UNCHANGED <<process, tmpdir, attempts, pstate, killed, tmpExists,
                   outbuf, runStarted, runFinished, runFailed>>

----------------------------------------------------------------------------
(* The worker script *)

Modes == {"all", "stage1", "stage2", "stage3", "stage4"}
ConfigPaths == {"/tmp/a/session_config.yaml", "/tmp/b/session_config.yaml"}
Displacements == {"w0", "w1"}

\* process.setArguments(["-u", "-c", RUNNER_SCRIPT, str(config_path), mode])
ProcessArguments(config_path, mode) ==
    <<"-u", "-c", "RUNNER_SCRIPT", config_path, mode>>

\* sys.argv of "python -u -c SCRIPT a b": "-c", then what follows the script
SysArgv(arguments) == <<"-c">> \o SubSeq(arguments, 4, Len(arguments))

\* cfg_path = sys.argv[1]; mode = sys.argv[2] (Python counts from 0)
cfg_path == wargv[2]
mode == wargv[3]

MainCallsStage3First(m) ==
    IF m = "all" THEN <<"run_stage1", "run_stage2", "run_stage3">>
    ELSE IF m = "stage1" THEN <<"run_stage1">>
    ELSE IF m = "stage2" THEN <<"run_stage2">>
    ELSE IF m = "stage3" THEN <<"run_stage3">>
    ELSE <<>>

\* the stage calls of main() on the branch of mode m, in program order
MainCalls(m) ==
    IF m = "all" THEN <<"run_stage1", "run_stage2", "run_stage3">>
    ELSE IF m = "stage1" THEN <<"run_stage1">>
    ELSE IF m = "stage2" THEN <<"run_stage2">>
    ELSE IF m = "stage3" THEN <<"run_stage2", "run_stage3">>
    ELSE <<>>

KnownMode(m) == m \in {"all", "stage1", "stage2", "stage3"}

NoResult == <<-1, "none">>

\* a call of the trace: what was called, the middle_idx and displacements passed
\* (stage 3) or returned (stage 2), and whether it raised
Call(what, middle_idx, displacements, raised) ==
    [what |-> what, middle_idx |-> middle_idx, displacements |-> displacements,
     raised |-> raised]

WorkerOff ==
    /\ wargv = <<>>
    /\ wpc = "off"
    /\ wstep = 0
    /\ wtrace = <<>>
    /\ wresult = NoResult
    /\ wexit = NoCode

\* the subprocess starts with the arguments start() gave it
WorkerInit ==
    /\ \E c \in ConfigPaths, m \in Modes : wargv = SysArgv(ProcessArguments(c, m))
    /\ wpc = "load"
    /\ wstep = 0
    /\ wtrace = <<>>
    /\ wresult = NoResult
    /\ wexit = NoCode

\* an exception that leaves main(): the interpreter exits with code 1
WorkerRaises(call) ==
    /\ wtrace' = Append(wtrace, call)
    /\ wpc' = "exited"
    /\ wexit' = 1
    /\ UNCHANGED <<wargv, wstep, wresult>>

\* config = SessionConfig.from_file(cfg_path)
LoadConfig(ok) ==
    /\ wpc = "load"
    /\ IF ok
       THEN /\ wtrace' = Append(wtrace, Call("from_file", -1, cfg_path, FALSE))
            /\ wpc' = "run"
            /\ UNCHANGED <<wargv, wstep, wresult, wexit>>
       ELSE WorkerRaises(Call("from_file", -1, cfg_path, TRUE))

NextCall == MainCalls(mode)[wstep + 1]

\* run_stage1(config)
RunStage1(ok) ==
    /\ wpc = "run"
    /\ wstep < Len(MainCalls(mode))
    /\ NextCall = "run_stage1"
    /\ IF ok
       THEN /\ wtrace' = Append(wtrace, Call("run_stage1", -1, "none", FALSE))
            /\ wstep' = wstep + 1
            /\ UNCHANGED <<wargv, wpc, wresult, wexit>>
       ELSE WorkerRaises(Call("run_stage1", -1, "none", TRUE))

\* middle_idx, avg, displacements = run_stage2(config)
RunStage2(ok, middle_idx, displacements) ==
    /\ wpc = "run"
    /\ wstep < Len(MainCalls(mode))
    /\ NextCall = "run_stage2"
    /\ IF ok
       THEN /\ wtrace' = Append(wtrace,
                                Call("run_stage2", middle_idx, displacements, FALSE))
            /\ wresult' = <<middle_idx, displacements>>
            /\ wstep' = wstep + 1
            /\ UNCHANGED <<wargv, wpc, wexit>>
       ELSE WorkerRaises(Call("run_stage2", -1, "none", TRUE))

\* run_stage3(config, middle_idx, displacements)
RunStage3(ok) ==
    /\ wpc = "run"
    /\ wstep < Len(MainCalls(mode))
    /\ NextCall = "run_stage3"
    /\ IF ok
       THEN /\ wtrace' = Append(wtrace,
                                Call("run_stage3", wresult[1], wresult[2], FALSE))
            /\ wstep' = wstep + 1
            /\ UNCHANGED <<wargv, wpc, wresult, wexit>>
       ELSE WorkerRaises(Call("run_stage3", wresult[1], wresult[2], TRUE))

\* the return that ends the branch of a known mode
MainReturns ==
    /\ wpc = "run"
    /\ KnownMode(mode)
    /\ wstep = Len(MainCalls(mode))
    /\ wpc' = "exited"
    /\ wexit' = 0
    /\ UNCHANGED <<wargv, wstep, wtrace, wresult>>

\* raise ValueError(f"Unknown mode: {mode}")
UnknownMode ==
    /\ wpc = "run"
    /\ ~KnownMode(mode)
    /\ wpc' = "exited"
    /\ wexit' = 1
    /\ UNCHANGED <<wargv, wstep, wtrace, wresult>>

----------------------------------------------------------------------------
(* pathlib.PurePosixPath, as far as serialization.py uses it *)

PathChars == {"/", "a", "."}

\* the texts of at most n characters
Texts(n) == UNION {[1..k -> PathChars] : k \in 0..n}

\* the number of "/" s starts with
RECURSIVE LeadingSlashes(_)
LeadingSlashes(s) ==
    IF s # <<>> /\ s[1] = "/" THEN 1 + LeadingSlashes(Tail(s)) ELSE 0

\* s.split("/")
RECURSIVE SplitSlash(_)
SplitSlash(s) ==
    IF \A i \in DOMAIN s : s[i] # "/" THEN <<s>>
    ELSE LET k == CHOOSE i \in DOMAIN s : s[i] = "/" /\ \A j \in 1..(i - 1) : s[j] # "/"
         IN  <<SubSeq(s, 1, k - 1)>> \o SplitSlash(SubSeq(s, k + 1, Len(s)))

\* "/".join(parts)
RECURSIVE JoinSlash(_)
JoinSlash(parts) ==
    IF parts = <<>> THEN <<>>
    ELSE IF Len(parts) = 1 THEN parts[1]
    ELSE parts[1] \o <<"/">> \o JoinSlash(Tail(parts))

\* Path(s): the root ("/", "//" for exactly two leading slashes, "" for a
\* relative path) and the components, without empty ones and without "."
PathOf(s) ==
    [root |-> IF LeadingSlashes(s) = 0 THEN <<>>
              ELSE IF LeadingSlashes(s) = 2 THEN <<"/", "/">>
              ELSE <<"/">>,
     parts |-> SelectSeq(SplitSlash(s), LAMBDA c : c # <<>> /\ c # <<".">>)]

\* str(path)
StrOf(path) ==
    IF path.root = <<>> /\ path.parts = <<>> THEN <<".">>
    ELSE path.root \o JoinSlash(path.parts)

\* path.is_absolute()
IsAbsolute(path) == path.root # <<>>

\* the root and the components, as relative_to compares them
AbsParts(path) == IF path.root # <<>> THEN <<path.root>> \o path.parts ELSE path.parts

\* path.relative_to(other): ok is FALSE where it raises ValueError
RelativeTo(path, other) ==
    LET a == AbsParts(path)
        b == AbsParts(other)
        n == Len(b)
    IN  IF n <= Len(a) /\ SubSeq(a, 1, n) = b
        THEN [ok |-> TRUE,
              path |-> [root |-> IF n = 0 THEN path.root ELSE <<>>,
                        parts |-> SubSeq(a, n + 1, Len(a))]]
        ELSE [ok |-> FALSE, path |-> path]

----------------------------------------------------------------------------
(* serialize_config_to_yaml *)

\* A value of the config: kind is "absent" (no such key), "none", "str", "path"
\* (a Path object, text: what it was made from) or "dict" (text: a string in it).
Value(kind, text) == [kind |-> kind, text |-> text]
Absent == Value("absent", <<>>)
None == Value("none", <<>>)

RELATIVE_PATH_FIELDS == {"output_root", "final_results", "center"}
ConfigFields == {"root", "output_root", "final_results", "center", "flow_options", "pattern"}

\* _convert_paths_to_strings: a Path becomes its str, containers are walked,
\* anything else is kept
ConvertPathsToStrings(value) ==
    IF value.kind = "path" THEN Value("str", StrOf(PathOf(value.text)))
    ELSE value

\* root_path: Path(root_raw) when root is a non-empty string, else None
RootPath(data) ==
    IF data["root"].kind = "str" /\ data["root"].text # <<>>
    THEN [none |-> FALSE, path |-> PathOf(data["root"].text)]
    ELSE [none |-> TRUE, path |-> PathOf(<<>>)]

MaybeRelativeAlways(path_value, root_path, prefer_relative) ==
    IF root_path.none \/ path_value.kind # "str" THEN path_value
    ELSE LET candidate == PathOf(path_value.text) IN
         IF ~IsAbsolute(candidate) \/ ~IsAbsolute(root_path.path) THEN path_value
         ELSE LET rel == RelativeTo(candidate, root_path.path) IN
              IF rel.ok THEN Value("str", StrOf(rel.path)) ELSE path_value

\* _maybe_relative(path_value, root_path, prefer_relative)
MaybeRelative(path_value, root_path, prefer_relative) ==
    IF ~prefer_relative \/ root_path.none \/ path_value.kind # "str" THEN path_value
    ELSE LET candidate == PathOf(path_value.text) IN
         IF ~IsAbsolute(candidate) \/ ~IsAbsolute(root_path.path) THEN path_value
         ELSE LET rel == RelativeTo(candidate, root_path.path) IN
              IF rel.ok THEN Value("str", StrOf(rel.path)) ELSE path_value

\* the mapping serialize_config_to_yaml dumps for the config cfg
SerializedData(cfg, prefer_relative) ==
    LET data == [f \in ConfigFields |-> ConvertPathsToStrings(cfg[f])]
        root_path == RootPath(data)
    IN  [f \in ConfigFields |->
            IF f \in RELATIVE_PATH_FIELDS
            THEN IF data[f].kind # "absent"
                 THEN MaybeRelative(data[f], root_path, prefer_relative)
                 ELSE data[f]
            ELSE IF f = "flow_options" /\ data[f].kind = "str"
            THEN MaybeRelative(data[f], root_path, prefer_relative)
            ELSE data[f]]

NoConfig == [f \in ConfigFields |-> Absent]

YamlOff ==
    /\ ycfg = NoConfig
    /\ yprefer = FALSE
    /\ ywritten = NoConfig
    /\ ypc = "off"

\* how the values of a config are typed: every field a string; the path fields
\* Path objects, center None and flow_options a dict; no root and few fields
ConfigShapes == {"strings", "paths", "sparse"}

ConfigOf(shape, r, v) ==
    IF shape = "strings"
    THEN [f \in ConfigFields |-> IF f = "root" THEN Value("str", r) ELSE Value("str", v)]
    ELSE IF shape = "paths"
    THEN [f \in ConfigFields |->
            IF f = "root" THEN Value("path", r)
            ELSE IF f \in {"output_root", "final_results"} THEN Value("path", v)
            ELSE IF f = "center" THEN None
            ELSE IF f = "flow_options" THEN Value("dict", v)
            ELSE Value("str", v)]
    ELSE [f \in ConfigFields |->
            IF f = "root" THEN None
            ELSE IF f = "flow_options" THEN Value("path", v)
            ELSE IF f = "center" THEN Value("str", v)
            ELSE Absent]

\* serialize_config_to_yaml(config, path, prefer_relative) is called
YamlInit ==
    /\ \E shape \in ConfigShapes, r \in Texts(MaxRootLen), v \in Texts(MaxPathLen) :
          ycfg = ConfigOf(shape, r, v)
    /\ yprefer \in BOOLEAN
    /\ ywritten = NoConfig
    /\ ypc = "called"

\* ... and runs to yaml.safe_dump(data, handle, sort_keys=False)
Serialize ==
    /\ ypc = "called"
    /\ ywritten' = SerializedData(ycfg, yprefer)
    /\ ypc' = "written"
    /\ UNCHANGED <<ycfg, yprefer>>

----------------------------------------------------------------------------
(* Python values and their text forms, as far as config_form.py uses them *)

\* A value: t is its type; n an int, a bool (0, 1) or the whole part of a float;
\* m the fraction of a float in units of 10^-7; s the characters of a str, the
\* text a Path was made from, the name of an Enum member, the items of a list,
\* or the members of a dict written as key ":" value.
Py(t, n, m, s) == [t |-> t, n |-> n, m |-> m, s |-> s]

PyNone == Py("none", 0, 0, <<>>)
PyBool(b) == Py("bool", IF b THEN 1 ELSE 0, 0, <<>>)
PyInt(n) == Py("int", n, 0, <<>>)
PyFloat(n, m) == Py("float", n, m, <<>>)
PyStr(s) == Py("str", 0, 0, s)
PyPath(s) == Py("path", 0, 0, s)
PyDict(s) == Py("dict", 0, 0, s)
PyList(s) == Py("list", 0, 0, s)
PyEnum(member) == Py("enum", 0, 0, <<member>>)

\* MISSING = object()
MISSING == Py("MISSING", 0, 0, <<>>)

RECURSIVE LStrip(_)
LStrip(s) ==
    IF s = <<>> THEN <<>>
    ELSE IF s[1] \in Whitespace THEN LStrip(Tail(s))
    ELSE s

\* text.strip()
Strip(s) == LStrip(RStrip(s))

\* the position of the first c in s, 0 when there is none
IndexOf(s, c) ==
    IF \E i \in DOMAIN s : s[i] = c
    THEN CHOOSE i \in DOMAIN s : s[i] = c /\ \A j \in 1..(i - 1) : s[j] # c
    ELSE 0

\* str(value), for the values a text editor is given (none of them a float)
Str(value) ==
    CASE value.t = "str" -> value.s
      [] value.t = "path" -> StrOf(PathOf(value.s))
      [] value.t = "int" -> <<ToString(value.n)>>
      [] value.t = "bool" -> IF value.n = 1 THEN <<"True">> ELSE <<"False">>
      [] value.t = "enum" -> <<"E", ".">> \o value.s
      [] value.t = "list" -> <<"[">> \o value.s \o <<"]">>
      [] value.t = "dict" ->
            IF value.s = <<>> THEN <<"{", "}">>
            ELSE LET k == IndexOf(value.s, ":") IN
                 <<"{", "'">> \o SubSeq(value.s, 1, k - 1) \o <<"'", ":", " ">>
                    \o SubSeq(value.s, k + 1, Len(value.s)) \o <<"}">>
      [] OTHER -> <<"None">>

\* json.dumps(value, indent=2): raised where the value is not JSON serializable
JsonDumps(value) ==
    CASE value.t = "dict" ->
            [raised |-> FALSE,
             text |-> IF value.s = <<>> THEN <<"{", "}">>
                      ELSE LET k == IndexOf(value.s, ":") IN
                           <<"{", "\n", " ", " ", "\"">> \o SubSeq(value.s, 1, k - 1)
                              \o <<"\"", ":", " ">>
                              \o SubSeq(value.s, k + 1, Len(value.s)) \o <<"\n", "}">>]
      [] value.t = "str" -> [raised |-> FALSE, text |-> <<"\"">> \o value.s \o <<"\"">>]
      [] value.t = "int" -> [raised |-> FALSE, text |-> <<ToString(value.n)>>]
      [] value.t = "bool" ->
            [raised |-> FALSE, text |-> IF value.n = 1 THEN <<"true">> ELSE <<"false">>]
      [] value.t = "none" -> [raised |-> FALSE, text |-> <<"null">>]
      [] value.t = "list" ->
            [raised |-> FALSE,
             text |-> IF value.s = <<>> THEN <<"[", "]">>
                      ELSE <<"[", "\n", " ", " ">> \o value.s \o <<"\n", "]">>]
      [] OTHER -> [raised |-> TRUE, text |-> <<>>]

\* json.loads, for JSON texts with at most one member in an object and one
\* item in a list, whose member and item values are numbers

JsonDigits == {"0", "1", "2", "3", "4", "5", "6", "7", "8", "9"}

First(t) == IF t = <<>> THEN "" ELSE t[1]

Parsed(ok, value, rest) == [ok |-> ok, value |-> value, rest |-> rest]
ParseError == Parsed(FALSE, PyNone, <<>>)

\* the digits t starts with
RECURSIVE DigitsOf(_)
DigitsOf(t) == IF First(t) \in JsonDigits THEN <<t[1]>> \o DigitsOf(Tail(t)) ELSE <<>>

\* a number: digits without a leading zero, kept as they are written
ParseNumber(t) ==
    LET d == DigitsOf(t) IN
    IF d = <<>> \/ (Len(d) > 1 /\ d[1] = "0") THEN ParseError
    ELSE Parsed(TRUE, Py("int", 0, 0, d), SubSeq(t, Len(d) + 1, Len(t)))

\* a string: from a quote to the next one, with no control character between
ParseString(t) ==
    LET k == IndexOf(Tail(t), "\"") IN
    IF First(t) # "\"" \/ k = 0 THEN ParseError
    ELSE IF \E i \in 1..(k - 1) : Tail(t)[i] \in {"\n", "\t"} THEN ParseError
    ELSE Parsed(TRUE, PyStr(SubSeq(Tail(t), 1, k - 1)), SubSeq(Tail(t), k + 1, Len(t) - 1))

ParseObject(t) ==
    LET u == LStrip(Tail(t)) IN
    IF First(u) = "}" THEN Parsed(TRUE, PyDict(<<>>), Tail(u))
    ELSE LET key == ParseString(u)
             v == LStrip(key.rest)
             member == ParseNumber(LStrip(Tail(v)))
             x == LStrip(member.rest)
         IN  IF key.ok /\ First(v) = ":" /\ member.ok /\ First(x) = "}"
             THEN Parsed(TRUE, PyDict(key.value.s \o <<":">> \o member.value.s), Tail(x))
             ELSE ParseError

ParseArray(t) ==
    LET u == LStrip(Tail(t)) IN
    IF First(u) = "]" THEN Parsed(TRUE, PyList(<<>>), Tail(u))
    ELSE LET item == ParseNumber(u)
             x == LStrip(item.rest)
         IN  IF item.ok /\ First(x) = "]"
             THEN Parsed(TRUE, PyList(item.value.s), Tail(x))
             ELSE ParseError

ParseValue(t) ==
    CASE First(t) = "{" -> ParseObject(t)
      [] First(t) = "[" -> ParseArray(t)
      [] First(t) = "\"" -> ParseString(t)
      [] First(t) \in JsonDigits -> ParseNumber(t)
      [] First(t) = "null" -> Parsed(TRUE, PyNone, Tail(t))
      [] OTHER -> ParseError

\* json.loads(text): ok is FALSE where it raises json.JSONDecodeError
JsonLoads(text) ==
    LET r == ParseValue(LStrip(text)) IN
    IF r.ok /\ LStrip(r.rest) = <<>> THEN r ELSE ParseError

----------------------------------------------------------------------------
(* Annotations and the editors of SessionConfigForm *)

\* An annotation: a Union of the types args, or the one type args[1].
\* Optional[T] is Union[T, None]; typing keeps no Union of a single type.
Plain(type) == [union |-> FALSE, args |-> <<type>>]
UnionOf(args) == [union |-> TRUE, args |-> args]
Optional(type) == UnionOf(<<type, "NoneType">>)

\* _unwrap_optional(annotation)
UnwrapOptional(annotation) ==
    LET args == SelectSeq(annotation.args, LAMBDA arg : arg # "NoneType") IN
    IF annotation.union /\ Len(args) = 1
    THEN [base |-> Plain(args[1]), optional |-> TRUE]
    ELSE [base |-> annotation, optional |-> FALSE]

\* base is target
Is(base, target) == ~base.union /\ base.args[1] = target

\* _annotation_has_type(annotation, target); the arguments of a Union are types
AnnotationHasType(annotation, target) ==
    LET base == UnwrapOptional(annotation).base IN
    \/ Is(base, target)
    \/ /\ base.union
       /\ \E i \in DOMAIN base.args : Is(Plain(base.args[i]), target)

PathPickerNames == {"root", "output_root", "final_results", "center"}

\* the branch of _create_editor that a field takes
Category(field_name, annotation) ==
    LET base == UnwrapOptional(annotation).base IN
    IF field_name = "flow_options" THEN "flow_options"
    ELSE IF field_name \in PathPickerNames THEN "path_picker"
    ELSE IF Is(base, "bool") THEN "bool"
    ELSE IF Is(base, "int") THEN "int"
    ELSE IF Is(base, "float") THEN "float"
    ELSE IF Is(base, "Literal") THEN "Literal"
    ELSE IF Is(base, "Enum") THEN "Enum"
    ELSE IF Is(base, "dict") \/ AnnotationHasType(base, "dict") THEN "dict"
    ELSE IF Is(base, "str") \/ Is(base, "Path") \/ AnnotationHasType(base, "Path") THEN "text"
    ELSE "fallback"

\* list(get_args(base_annotation)) of the Literal, list(base_annotation) of the Enum
Options(category) ==
    IF category = "Literal" THEN <<PyStr(<<"local">>), PyStr(<<"array">>)>>
    ELSE IF category = "Enum" THEN <<PyEnum("A"), PyEnum("B")>>
    ELSE <<>>

\* The content of an editor: text is the text of its line edit or plain text
\* edit (the inline editor of flow_options); file and mode are the file picker
\* and the mode combo of flow_options; num is the check state, the value of a
\* spin box (with frac, for a double spin box) or the index of a combo box.
Editor(text, file, current, num, frac) ==
    [text |-> text, file |-> file, mode |-> current, num |-> num, frac |-> frac]

\* the widgets as Qt constructs them: empty texts, unchecked, value 0, and
\* index 0 (the first item) in a combo box that was given items
NewEditor(category) ==
    Editor(<<>>, <<>>, IF category = "flow_options" THEN "inline" ELSE "", 0, 0)

SpinMax == 1000000000

\* QSpinBox.setValue within setRange(-1_000_000_000, 1_000_000_000)
SpinBound(n) == IF n > SpinMax THEN SpinMax ELSE IF n < -SpinMax THEN -SpinMax ELSE n

\* setDecimals(6)
Decimals == 6
\* the units the fraction of a float is counted in: one decimal more
FracUnits == 10 ^ (Decimals + 1)

\* QDoubleSpinBox.setValue with setDecimals(6) and the same range, for a float
\* that is not negative and not half way between two values of 6 decimals
DoubleSpinBound(n, m) ==
    LET r == ((m + 5) \div 10) * 10
        whole == IF r = FracUnits THEN n + 1 ELSE n
        frac == IF r = FracUnits THEN 0 ELSE r
    IN  IF whole >= SpinMax THEN [n |-> SpinMax, m |-> 0] ELSE [n |-> whole, m |-> frac]

Binding(category, optional, default, editor) ==
    [category |-> category, optional |-> optional, default |-> default, editor |-> editor]

Returned(value) == [raised |-> "", value |-> value]
Raised(exception) == [raised |-> exception, value |-> PyNone]

JsonGetterAnyValue(text, empty) ==
    IF Strip(text) = <<>> THEN Returned(empty)
    ELSE LET parsed == JsonLoads(Strip(text)) IN
         IF ~parsed.ok THEN Raised("ValueError")
         ELSE Returned(parsed.value)

\* the getter of a JSON text: FlowOptionsEditor.get_value in inline mode and
\* the getter of a dict field
JsonGetter(text, empty) ==
    IF Strip(text) = <<>> THEN Returned(empty)
    ELSE LET parsed == JsonLoads(Strip(text)) IN
         IF ~parsed.ok THEN Raised("ValueError")
         ELSE IF parsed.value.t # "dict" THEN Raised("ValueError")
         ELSE Returned(parsed.value)

\* binding.getter()
Getter(b) ==
    LET e == b.editor IN
    CASE b.category = "flow_options" ->
            IF e.mode = "inline" THEN JsonGetter(e.text, PyDict(<<>>))
            ELSE Returned(PyStr(Strip(e.file)))
      [] b.category \in {"path_picker", "text"} ->
            IF b.optional /\ Strip(e.text) = <<>> THEN Returned(PyNone)
            ELSE Returned(PyStr(Strip(e.text)))
      [] b.category = "bool" -> Returned(PyBool(e.num = 1))
      [] b.category = "int" -> Returned(PyInt(e.num))
      [] b.category = "float" -> Returned(PyFloat(e.num, e.frac))
      [] b.category \in {"Literal", "Enum"} ->
            IF e.num + 1 \in DOMAIN Options(b.category)
            THEN Returned(Options(b.category)[e.num + 1])
            ELSE Returned(PyNone)
      [] b.category = "dict" ->
            JsonGetter(e.text, IF ~b.optional THEN PyDict(<<>>) ELSE PyNone)
      [] OTHER -> Returned(PyStr(Strip(e.text)))

Set(editor) == [raised |-> "", editor |-> editor]
SetRaised(exception, editor) == [raised |-> exception, editor |-> editor]

\* bool(value)
Bool(value) ==
    CASE value.t \in {"bool", "int"} -> value.n # 0
      [] value.t = "float" -> value.n # 0 \/ value.m # 0
      [] value.t \in {"str", "dict", "list"} -> value.s # <<>>
      [] value.t = "none" -> FALSE
      [] OTHER -> TRUE

\* binding.setter(value): the editor it leaves, and the exception it raises
Setter(b, value) ==
    LET e == b.editor IN
    CASE b.category = "flow_options" ->
            IF value.t = "dict"
            THEN Set([e EXCEPT !.mode = "inline", !.text = JsonDumps(value).text])
            ELSE IF value.t = "none"
            THEN Set([e EXCEPT !.mode = "inline", !.text = <<"{", "}">>])
            ELSE Set([e EXCEPT !.mode = "file", !.file = Str(value)])
      [] b.category \in {"path_picker", "text", "fallback"} ->
            Set([e EXCEPT !.text = IF value.t = "none" THEN <<>> ELSE Str(value)])
      [] b.category = "bool" ->
            Set([e EXCEPT !.num = IF Bool(value) THEN 1 ELSE 0])
      [] b.category = "int" ->
            IF value.t \in {"int", "bool"} THEN Set([e EXCEPT !.num = SpinBound(value.n)])
            ELSE SetRaised("TypeError", e)
      [] b.category = "float" ->
            IF value.t = "float"
            THEN Set([e EXCEPT !.num = DoubleSpinBound(value.n, value.m).n,
                               !.frac = DoubleSpinBound(value.n, value.m).m])
            ELSE IF value.t \in {"int", "bool"}
            THEN Set([e EXCEPT !.num = DoubleSpinBound(value.n, 0).n, !.frac = 0])
            ELSE SetRaised("TypeError", e)
      [] b.category \in {"Literal", "Enum"} ->
            LET options == Options(b.category) IN
            IF \E index \in DOMAIN options : options[index] = value
            THEN Set([e EXCEPT !.num = (CHOOSE index \in DOMAIN options :
                                           /\ options[index] = value
                                           /\ \A j \in 1..(index - 1) : options[j] # value)
                                        - 1])
            ELSE Set(e)
      [] OTHER ->
            IF value.t = "none" THEN Set([e EXCEPT !.text = <<>>])
            ELSE IF JsonDumps(value).raised THEN SetRaised("TypeError", e)
            ELSE Set([e EXCEPT !.text = JsonDumps(value).text])

\* binding.resetter()
Resetter(b) ==
    LET e == b.editor IN
    CASE b.category = "flow_options" ->
            [e EXCEPT !.mode = "inline", !.text = <<"{", "}">>, !.file = <<>>]
      [] b.category \in {"path_picker", "text", "fallback"} -> [e EXCEPT !.text = <<>>]
      [] b.category \in {"bool", "int"} -> [e EXCEPT !.num = 0]
      [] b.category = "float" -> [e EXCEPT !.num = 0, !.frac = 0]
      [] b.category \in {"Literal", "Enum"} ->
            IF Len(Options(b.category)) > 0 THEN [e EXCEPT !.num = 0] ELSE e
      [] OTHER -> [e EXCEPT !.text = IF ~b.optional THEN <<"{", "}">> ELSE <<>>]

\* _create_editor(field_name, annotation, default): the binding, and the
\* exception that applying the default raises
CreateEditor(field_name, annotation, default) ==
    LET unwrapped == UnwrapOptional(annotation)
        category == Category(field_name, annotation)
        binding == Binding(category, unwrapped.optional, default, NewEditor(category))
    IN  IF default # MISSING
        THEN [raised |-> Setter(binding, default).raised,
              binding |-> [binding EXCEPT !.editor = Setter(binding, default).editor]]
        ELSE IF category \in {"flow_options", "Literal", "Enum", "dict"}
        THEN [raised |-> "", binding |-> [binding EXCEPT !.editor = Resetter(binding)]]
        ELSE [raised |-> "", binding |-> binding]

----------------------------------------------------------------------------
(* Model classes and SessionConfigForm *)

\* a field of a model class, as pydantic describes it
RawField(name, annotation, default, required) ==
    [name |-> name, annotation |-> annotation, default |-> default, required |-> required]

\* ModelFieldSpec
ModelFieldSpec(name, annotation, default, required) ==
    [name |-> name, annotation |-> annotation, default |-> default, required |-> required]

\* iter_model_fields(model_cls): a required field has no default
IterModelFields(model_cls) ==
    [i \in DOMAIN model_cls |->
        ModelFieldSpec(model_cls[i].name, model_cls[i].annotation,
                       IF model_cls[i].required THEN MISSING ELSE model_cls[i].default,
                       model_cls[i].required)]

Types == {"bool", "int", "float", "Literal", "Enum", "dict", "Dict[str, Any]",
          "str", "Path", "list"}

Annotations ==
    {Plain(type) : type \in Types} \cup {Optional(type) : type \in Types}
        \cup {UnionOf(<<"dict", "str">>), UnionOf(<<"dict", "str", "NoneType">>),
              UnionOf(<<"str", "Path">>), UnionOf(<<"str", "int">>),
              UnionOf(<<"Dict[str, Any]", "str", "Path">>)}

\* values of a type
ValuesOf(type) ==
    CASE type = "bool" -> {PyBool(TRUE), PyBool(FALSE)}
      [] type = "int" -> {PyInt(0), PyInt(7), PyInt(2 * SpinMax)}
      [] type = "float" -> {PyFloat(0, 0), PyFloat(2, FracUnits \div 2), PyFloat(0, 12)}
      [] type = "Literal" -> {PyStr(<<"local">>), PyStr(<<"array">>)}
      [] type = "Enum" -> {PyEnum("A"), PyEnum("B")}
      [] type \in {"dict", "Dict[str, Any]"} -> {PyDict(<<>>), PyDict(<<"k", ":", "1">>)}
      [] type = "str" -> {PyStr(<<>>), PyStr(<<"a">>), PyStr(<<" ", "a">>)}
      [] type = "Path" -> {PyPath(<<"a">>), PyPath(<<"/", "a", "/">>)}
      [] type = "list" -> {PyList(<<"1">>)}
      [] OTHER -> {PyNone}

\* the values admissible for an annotation
Admissible(annotation) ==
    UNION {ValuesOf(annotation.args[i]) : i \in DOMAIN annotation.args}

FieldNames == {"flow_options", "center", "alpha"}

\* the annotations a field is given: a field that is edited as text whatever
\* its annotation is has no float
AnnotationsFor(name) ==
    IF name = "flow_options" \/ name \in PathPickerNames
    THEN {a \in Annotations : \A i \in DOMAIN a.args : a.args[i] # "float"}
    ELSE Annotations

\* the fields of a name: any annotation, with no default or an admissible one
FieldsOf(name) ==
    UNION {{RawField(name, annotation, default, required) :
                default \in {MISSING} \cup Admissible(annotation), required \in BOOLEAN} :
           annotation \in AnnotationsFor(name)}

\* a class with the kinds of fields a session configuration has
ExampleConfig ==
    <<RawField("root", Plain("Path"), MISSING, TRUE),
      RawField("flow_options", UnionOf(<<"Dict[str, Any]", "str", "Path">>),
               PyDict(<<>>), FALSE),
      RawField("resume", Plain("bool"), PyBool(TRUE), FALSE),
      RawField("center", Optional("str"), PyNone, FALSE)>>

\* the model classes a form is built for: every class of one field, and the example
ModelClasses ==
    {<<field>> : field \in UNION {FieldsOf(name) : name \in FieldNames}}
        \cup {ExampleConfig}

\* The method that ran last, with its argument and the exception it raised;
\* after is the last method that changed an editor (a getter keeps it) and
\* model says that build_model returned a model.
FormOp(name, field, value, raised) ==
    [name |-> name, field |-> field, value |-> value, raised |-> raised,
     after |-> name, model |-> FALSE]

FormOff ==
    /\ fclass = <<>>
    /\ fpc = "off"
    /\ fbind = <<>>
    /\ fop = FormOp("", "", PyNone, "")
    /\ fgot = <<>>
    /\ fedits = 0

\* a model class is chosen; no form is constructed yet
FormInit ==
    /\ fclass \in ModelClasses
    /\ fpc = "class"
    /\ fbind = <<>>
    /\ fop = FormOp("", "", PyNone, "")
    /\ fgot = <<>>
    /\ fedits = 0

\* the names of a sequence of fields, bindings or data items
NamesOf(items) == {items[i].name : i \in DOMAIN items}

\* self._bindings.get(name)
IndexOfName(items, name) == CHOOSE i \in DOMAIN items : items[i].name = name

\* SessionConfigForm.__init__(session_config_cls): each field gets the binding
\* _create_editor returns; an exception leaves no form
Construct ==
    /\ fpc = "class"
    /\ LET specs == IterModelFields(fclass)
           created == [i \in DOMAIN specs |->
                          CreateEditor(specs[i].name, specs[i].annotation, specs[i].default)]
       IN  IF \E i \in DOMAIN created : created[i].raised # ""
           THEN /\ fpc' = "failed"
                /\ fbind' = <<>>
                /\ fop' = FormOp("__init__", "", PyNone, "TypeError")
           ELSE /\ fpc' = "built"
                /\ fbind' = [i \in DOMAIN specs |->
                                [name |-> specs[i].name, binding |-> created[i].binding]]
                /\ fop' = FormOp("__init__", "", PyNone, "")
    /\ UNCHANGED <<fclass, fgot, fedits>>

\* set_form_data({name: value}): a name without a binding is skipped
SetFormData(name, value) ==
    /\ fpc = "built"
    /\ IF name \in NamesOf(fbind)
       THEN LET i == IndexOfName(fbind, name)
                set == Setter(fbind[i].binding, value)
            IN  /\ fbind' = [fbind EXCEPT ![i].binding.editor = set.editor]
                /\ fop' = FormOp("set_form_data", name, value, set.raised)
       ELSE /\ fbind' = fbind
            /\ fop' = FormOp("set_form_data", name, value, "")
    /\ fgot' = <<>>
    /\ UNCHANGED <<fclass, fpc, fedits>>

\* get_form_data(): the getters in the order of the bindings; fop keeps the
\* argument of the set_form_data before it
GetFormData ==
    /\ fpc = "built"
    /\ LET got == [i \in DOMAIN fbind |-> Getter(fbind[i].binding)] IN
       IF \E i \in DOMAIN got : got[i].raised # ""
       THEN /\ fgot' = <<>>
            /\ fop' = [fop EXCEPT !.name = "get_form_data", !.raised = "ValueError",
                                  !.model = FALSE]
       ELSE /\ fgot' = [i \in DOMAIN fbind |->
                           [name |-> fbind[i].name, value |-> got[i].value]]
            /\ fop' = [fop EXCEPT !.name = "get_form_data", !.raised = "", !.model = FALSE]
    /\ UNCHANGED <<fclass, fpc, fbind, fedits>>

\* reset_to_defaults(): the bindings in their order, the resetter where the
\* default is MISSING and the setter with the default elsewhere; an exception
\* ends the loop
ResetToDefaults ==
    /\ fpc = "built"
    /\ LET applied == [i \in DOMAIN fbind |->
                          IF fbind[i].binding.default = MISSING
                          THEN Set(Resetter(fbind[i].binding))
                          ELSE Setter(fbind[i].binding, fbind[i].binding.default)]
           raising == {i \in DOMAIN fbind : applied[i].raised # ""}
       IN  /\ fbind' = [i \in DOMAIN fbind |->
                           IF \E k \in raising : k < i THEN fbind[i]
                           ELSE [fbind[i] EXCEPT !.binding.editor = applied[i].editor]]
           /\ fop' = FormOp("reset_to_defaults", "", PyNone,
                            IF raising = {} THEN "" ELSE "TypeError")
    /\ fgot' = <<>>
    /\ UNCHANGED <<fclass, fpc, fedits>>

\* the categories whose editor shows a text the user types
TextCategories == {"flow_options", "path_picker", "dict", "text", "fallback"}

\* texts a user types: blank, not JSON, JSON that is no object, and an object
\* (or a path) between blanks
TypedTexts == {<<" ">>, <<"{">>, <<"[", "]">>, <<" ", "{", "}", " ">>}

\* The user types text into the editor of a field: its line edit or plain text
\* edit, for flow_options the widget that the mode shows.
EditText(name, text) ==
    /\ fpc = "built"
    /\ fedits < MaxEdits
    /\ name \in NamesOf(fbind)
    /\ LET i == IndexOfName(fbind, name)
           b == fbind[i].binding
       IN  /\ b.category \in TextCategories
           /\ fbind' = IF b.category = "flow_options" /\ b.editor.mode = "file"
                       THEN [fbind EXCEPT ![i].binding.editor.file = text]
                       ELSE [fbind EXCEPT ![i].binding.editor.text = text]
    /\ fop' = FormOp("edit", name, PyNone, "")
    /\ fgot' = <<>>
    /\ fedits' = fedits + 1
    /\ UNCHANGED <<fclass, fpc>>

\* The user picks a mode in the mode combo of flow_options.
SelectMode(name, picked) ==
    /\ fpc = "built"
    /\ fedits < MaxEdits
    /\ name \in NamesOf(fbind)
    /\ LET i == IndexOfName(fbind, name) IN
       /\ fbind[i].binding.category = "flow_options"
       /\ fbind[i].binding.editor.mode # picked
       /\ fbind' = [fbind EXCEPT ![i].binding.editor.mode = picked]
    /\ fop' = FormOp("edit", name, PyNone, "")
    /\ fgot' = <<>>
    /\ fedits' = fedits + 1
    /\ UNCHANGED <<fclass, fpc>>

\* to_session_config(): build_model(cls, get_form_data()); valid says whether
\* the model class accepts the data
ToSessionConfig(valid) ==
    /\ fpc = "built"
    /\ LET got == [i \in DOMAIN fbind |-> Getter(fbind[i].binding)] IN
       IF \E i \in DOMAIN got : got[i].raised # ""
       THEN /\ fgot' = <<>>
            /\ fop' = [fop EXCEPT !.name = "to_session_config", !.raised = "ValueError",
                                  !.model = FALSE]
       ELSE /\ fgot' = [i \in DOMAIN fbind |->
                           [name |-> fbind[i].name, value |-> got[i].value]]
            /\ fop' = [fop EXCEPT !.name = "to_session_config",
                                  !.raised = IF valid THEN "" ELSE "ValidationError",
                                  !.model = valid]
    /\ UNCHANGED <<fclass, fpc, fbind, fedits>>

\* the values set_form_data is given for a name: admissible for its annotation
SetValues(name) ==
    IF name \in NamesOf(fclass)
    THEN Admissible(fclass[IndexOfName(fclass, name)].annotation)
    ELSE {PyNone}

----------------------------------------------------------------------------
(* Specifications *)

Init == RunnerInit /\ WorkerOff /\ YamlOff /\ FormOff

Next ==
    \/ /\ \E serialized \in BOOLEAN, waited \in WaitOutcomes, collected \in BOOLEAN :
             Start(serialized, waited, collected)
       /\ UNCHANGED <<workerVars, yamlVars, formVars>>
    \/ /\ Terminate
       /\ UNCHANGED <<workerVars, yamlVars, formVars>>
    \/ /\ \E p \in Procs, c \in ExitCodes, st \in ExitStatuses : ProcessFinished(p, c, st)
       /\ UNCHANGED <<workerVars, yamlVars, formVars>>
    \/ /\ \E p \in Procs : LateStarted(p)
       /\ UNCHANGED <<workerVars, yamlVars, formVars>>
    \/ /\ \E p \in Procs : LateFailed(p)
       /\ UNCHANGED <<workerVars, yamlVars, formVars>>

\* The life cycle of LocalRunner, driven by its caller, its subprocesses and the
\* event loop. The read handlers are left to LogSpec: they change the output
\* buffers only, which no life-cycle action reads.
Spec == Init /\ [][Next]_vars

LogNext ==
    \/ Next
    \/ /\ \E p \in Procs, chunk \in Chunks : ReadyReadStdout(p, chunk)
       /\ UNCHANGED <<workerVars, yamlVars, formVars>>
    \/ /\ \E p \in Procs, chunk \in Chunks : ReadyReadStderr(p, chunk)
       /\ UNCHANGED <<workerVars, yamlVars, formVars>>

\* LocalRunner with the output of its subprocesses
LogSpec == Init /\ [][LogNext]_vars

WorkerSpecInit == RunnerInit /\ WorkerInit /\ YamlOff /\ FormOff

WorkerSpecNext ==
    \/ /\ \E ok \in BOOLEAN : LoadConfig(ok)
       /\ UNCHANGED <<runnerVars, yamlVars, formVars>>
    \/ /\ \E ok \in BOOLEAN : RunStage1(ok)
       /\ UNCHANGED <<runnerVars, yamlVars, formVars>>
    \/ /\ \E ok \in BOOLEAN, i \in 0..MaxMiddleIdx, d \in Displacements :
             RunStage2(ok, i, d)
       /\ UNCHANGED <<runnerVars, yamlVars, formVars>>
    \/ /\ \E ok \in BOOLEAN : RunStage3(ok)
       /\ UNCHANGED <<runnerVars, yamlVars, formVars>>
    \/ /\ MainReturns
       /\ UNCHANGED <<runnerVars, yamlVars, formVars>>
    \/ /\ UnknownMode
       /\ UNCHANGED <<runnerVars, yamlVars, formVars>>

\* one run of the worker script, from its start to its exit
WorkerSpec == WorkerSpecInit /\ [][WorkerSpecNext]_vars

YamlSpecInit == RunnerInit /\ WorkerOff /\ YamlInit /\ FormOff

YamlSpecNext ==
    \/ /\ Serialize
       /\ UNCHANGED <<runnerVars, workerVars, formVars>>

\* one call of serialize_config_to_yaml
YamlSpec == YamlSpecInit /\ [][YamlSpecNext]_vars

FormSpecInit == RunnerInit /\ WorkerOff /\ YamlOff /\ FormInit

FormSpecNext ==
    \/ /\ Construct
       /\ UNCHANGED <<runnerVars, workerVars, yamlVars>>
    \/ /\ \E name \in NamesOf(fclass) \cup {"zeta"} : \E value \in SetValues(name) :
             SetFormData(name, value)
       /\ UNCHANGED <<runnerVars, workerVars, yamlVars>>
    \/ /\ GetFormData
       /\ UNCHANGED <<runnerVars, workerVars, yamlVars>>
    \/ /\ ResetToDefaults
       /\ UNCHANGED <<runnerVars, workerVars, yamlVars>>
    \/ /\ \E name \in NamesOf(fclass), text \in TypedTexts : EditText(name, text)
       /\ UNCHANGED <<runnerVars, workerVars, yamlVars>>
    \/ /\ \E name \in NamesOf(fclass), picked \in {"inline", "file"} : SelectMode(name, picked)
       /\ UNCHANGED <<runnerVars, workerVars, yamlVars>>
    \/ /\ \E valid \in BOOLEAN : ToSessionConfig(valid)
       /\ UNCHANGED <<runnerVars, workerVars, yamlVars>>

\* a form for one model class and the calls of its methods
FormSpec == FormSpecInit /\ [][FormSpecNext]_vars

\* A killed subprocess dies and the event loop delivers its finished signal.
KilledFinished(p) ==
    /\ p \in killed
    /\ \E c \in ExitCodes, st \in ExitStatuses : ProcessFinished(p, c, st)
    /\ UNCHANGED <<workerVars, yamlVars, formVars>>

\* LocalRunner with an event loop that delivers the exit of a killed subprocess
LiveSpec == Init /\ [][Next]_vars /\ \A p \in Procs : WF_vars(KilledFinished(p))

----------------------------------------------------------------------------
(* Claims about LocalRunner *)

Idle == process = 0 /\ tmpdir = 0 /\ ~is_running

Range(s) == {s[i] : i \in DOMAIN s}

\* the signals of the last operation end with run_finished(c), preceded by
\* run_failed exactly when c is not 0
EndsRun(c) ==
    /\ emitted # <<>>
    /\ emitted[Len(emitted)].sig = "run_finished"
    /\ emitted[Len(emitted)].code = c
    /\ IF c = 0 THEN Len(emitted) = 1
       ELSE Len(emitted) = 2 /\ emitted[1].sig = "run_failed"

\* C1: for every run whose start() emitted run_started, run_finished is emitted
\* exactly once, by the finished handler of its subprocess and with that
\* subprocess's exit code (never before the exit), and when the finished handler
\* has returned the runner is idle: is_running() is false, no process and no
\* temporary directory is held.
C1_FinishedOnceThenIdle ==
    /\ \A p \in runStarted :
          /\ pstate[p] = "Running" => runFinished[p] = <<>>
          /\ pstate[p] = "NotRunning" => Len(runFinished[p]) = 1
    /\ op.name = "finished" =>
          /\ runFinished[op.p] = <<op.exit_code>>
          /\ Len(SelectSeq(emitted, LAMBDA e : e.sig = "run_finished")) = 1
          /\ \E i \in DOMAIN emitted :
                emitted[i].sig = "run_finished" /\ emitted[i].code = op.exit_code
          /\ Idle

C1_Witness ==
    /\ op.name = "finished"
    /\ op.p \in runStarted
    /\ op.exit_code = 9
    /\ Idle

\* C2: start() called while is_running() is true raises RuntimeError and changes
\* nothing: no directory is created, no process is created, the process and
\* directory references and every process's state are kept, no signal is emitted.
C2_StartWhileRunningRejected ==
    [][(op'.name = "start" /\ is_running) =>
          /\ op'.raised = "already running"
          /\ emitted' = NoSignals
          /\ <<process, tmpdir, attempts, pstate, killed, tmpExists, reads, outbuf,
                errbuf, runStarted, runFinished, runFailed>>'
               = <<process, tmpdir, attempts, pstate, killed, tmpExists, reads, outbuf,
                   errbuf, runStarted, runFinished, runFailed>>]_vars

C2_Witness ==
    /\ op.name = "start"
    /\ op.raised = "already running"
    /\ is_running

\* C5: terminate() with a process held kills that process and nothing else
\* changes; terminate() with no process held changes nothing and emits nothing;
\* and a killed process's run ends through the finished handler: run_finished is
\* emitted for it, preceded by run_failed when the exit code is not 0, and the
\* runner is idle when the handler has returned.
C5_TerminateKillsThenNormalExit ==
    /\ [][op'.name = "terminate" =>
            /\ killed' = (IF process # 0 THEN killed \cup {process} ELSE killed)
            /\ emitted' = NoSignals
            /\ <<process, tmpdir, attempts, pstate, tmpExists, reads, outbuf, errbuf,
                  runStarted, runFinished, runFailed>>'
                 = <<process, tmpdir, attempts, pstate, tmpExists, reads, outbuf, errbuf,
                     runStarted, runFinished, runFailed>>]_vars
    /\ \A p \in Procs :
          (p \in killed /\ pstate[p] = "Running") ~>
              (/\ op.name = "finished" /\ op.p = p
               /\ runFinished[p] = <<op.exit_code>>
               /\ EndsRun(op.exit_code)
               /\ Idle)

C5_Witness ==
    /\ op.name = "finished"
    /\ op.p \in killed
    /\ op.exit_code # 0
    /\ Idle

\* C6: the finished handler emits run_failed, once and with a message naming the
\* exit code, exactly when the exit code is not 0, and then run_finished; with
\* exit code 0 it emits run_finished alone, whatever the exit status; and a
\* finished handler starts no process.
C6_FailedIffNonZero ==
    /\ [](op.name = "finished" =>
            LET c == op.exit_code IN
            /\ emitted # <<>>
            /\ emitted[Len(emitted)] = Sig("run_finished", c, <<>>)
            /\ c = 0 => Len(emitted) = 1
            /\ c # 0 => /\ Len(emitted) = 2
                        /\ emitted[1].sig = "run_failed"
                        /\ "{exit_code}" \in Range(emitted[1].text)
                        /\ emitted[1].code = c
            /\ runFailed[op.p] = (IF c # 0 THEN <<c>> ELSE <<>>))
    /\ [](\A p \in Procs : runFailed[p] # <<>> =>
            runFinished[p] = runFailed[p] /\ runFailed[p][1] # 0)
    /\ [][op'.name = "finished" =>
            /\ attempts' = attempts
            /\ \A p \in Procs :
                  pstate'[p] \in {"Starting", "Running"} => pstate'[p] = pstate[p]]_vars

C6_Witness ==
    /\ op.name = "finished"
    /\ op.exit_code = 0
    /\ op.exit_status = "CrashExit"
    /\ Len(emitted) = 1

\* s with its trailing characters in chars removed, stated without recursion:
\* r is a prefix of s, what follows r in s is in chars, r does not end in chars
IsRStripOf(r, s, chars) ==
    /\ Len(r) <= Len(s)
    /\ r = SubSeq(s, 1, Len(r))
    /\ \A i \in (Len(r) + 1)..Len(s) : s[i] \in chars
    /\ r # <<>> => r[Len(r)] \notin chars

\* C9: when standard output (standard error) of the held process becomes
\* readable, log_emitted is emitted once with the chunk (prefixed "[stderr] "),
\* trailing newlines (trailing whitespace) removed; a read handler that finds
\* nothing to read, or no process held, emits nothing.
C9_OutputStreamedAsLog ==
    /\ op.name = "stdout" =>
          IF process = op.p
          THEN /\ Len(emitted) = 1
               /\ emitted[1].sig = "log_emitted"
               /\ IsRStripOf(emitted[1].text, op.chunk, {"\n"})
          ELSE emitted = NoSignals
    /\ op.name = "stderr" =>
          IF process = op.p
          THEN /\ Len(emitted) = 1
               /\ emitted[1].sig = "log_emitted"
               /\ Len(emitted[1].text) >= Len(StderrPrefix)
               /\ SubSeq(emitted[1].text, 1, Len(StderrPrefix)) = StderrPrefix
               /\ IsRStripOf(SubSeq(emitted[1].text, Len(StderrPrefix) + 1,
                                    Len(emitted[1].text)),
                             op.chunk, Whitespace)
          ELSE emitted = NoSignals

C9_Witness ==
    /\ op.name = "stdout"
    /\ process = op.p
    /\ op.chunk = <<"a", " ", "\n">>
    /\ emitted = <<Sig("log_emitted", NoCode, <<"a", " ">>)>>

\* C10: a start() whose subprocess did not report started within the wait raises,
\* emits no run_started, and leaves the runner idle with the directory it made
\* removed; run_started is emitted only by a start() whose subprocess reported
\* started.
C10_FailedStartLeavesIdle ==
    /\ (op.name = "start" /\ op.waited \in {"failed", "timeout"}) =>
          /\ op.raised = "failed to start"
          /\ emitted = NoSignals
          /\ op.p \notin runStarted
          /\ op.p \notin tmpExists
          /\ Idle
    /\ (op.name = "start" /\ emitted # NoSignals) =>
          /\ op.waited = "started"
          /\ emitted = <<Sig("run_started", NoCode, <<>>)>>
          /\ pstate[op.p] = "Running"
    /\ \A p \in runStarted : pstate[p] \in {"Running", "NotRunning"}
    /\ op.name # "start" => \A i \in DOMAIN emitted : emitted[i].sig # "run_started"

C10_Witness ==
    /\ op.name = "start"
    /\ op.waited = "timeout"
    /\ pstate[op.p] = "Starting"
    /\ Idle

\* some QProcess has a subprocess that is starting or running
SubprocessAlive == \E p \in Procs : pstate[p] \in {"Starting", "Running"}

\* C13: after start() has returned or raised and after every finished handler,
\* the temporary directory is held if and only if the process reference is
\* held, and both are None whenever no subprocess is alive - also when start()
\* fails because writing the config YAML raises.
C13_HeldTogether ==
    op.name \in {"start", "finished"} =>
        /\ tmpdir # 0 <=> process # 0
        /\ ~SubprocessAlive => tmpdir = 0 /\ process = 0

\* C14: run_finished and run_failed are emitted only for a run whose
\* run_started was emitted; the finished handler of a subprocess other than the
\* one of the run that is held and running removes no directory, keeps the
\* process reference and the held directory, and emits nothing; and the
\* directory of a started run exists as long as its subprocess is running.
C14_CallbacksOwnRun ==
    /\ [](\A p \in Procs :
             /\ runFinished[p] # <<>> \/ runFailed[p] # <<>> => p \in runStarted
             /\ p \in runStarted /\ pstate[p] = "Running" => p \in tmpExists)
    /\ [][op'.name = "finished" /\ is_running /\ op'.p # process =>
             /\ <<process, tmpdir, tmpExists>>' = <<process, tmpdir, tmpExists>>
             /\ emitted' = NoSignals]_vars

----------------------------------------------------------------------------
(* Claims about the worker script *)

Whats(trace) == [i \in DOMAIN trace |-> trace[i].what]

IsPrefix(a, b) == Len(a) <= Len(b) /\ a = SubSeq(b, 1, Len(a))

ExpectedStages(m) ==
    CASE m = "all" -> <<"run_stage1", "run_stage2", "run_stage3">>
      [] m = "stage1" -> <<"run_stage1">>
      [] m = "stage2" -> <<"run_stage2">>
      [] m = "stage3" -> <<"run_stage2", "run_stage3">>
      [] OTHER -> <<>>

\* C7: the worker loads the config named by its first argument before any stage;
\* the stages it calls are, in order, those of its mode (all: 1, 2, 3; stage1: 1;
\* stage2: 2; stage3: 2, 3), all of them when it exits with 0; stage 3 is called
\* only right after stage 2 returned, with the middle_idx and displacements stage 2
\* returned; a call that raises is the last call and the exit code is then 1; an
\* unknown mode calls no stage and exits with a code other than 0.
C7_StagesInModeOrder ==
    /\ wtrace # <<>> => wtrace[1] = Call("from_file", -1, wargv[2], wtrace[1].raised)
    /\ IsPrefix(Whats(wtrace), <<"from_file">> \o ExpectedStages(wargv[3]))
    /\ wexit = 0 => Whats(wtrace) = <<"from_file">> \o ExpectedStages(wargv[3])
    /\ \A i \in DOMAIN wtrace :
          /\ wtrace[i].what = "run_stage3" =>
                /\ i > 1
                /\ wtrace[i - 1].what = "run_stage2"
                /\ wtrace[i - 1].middle_idx = wtrace[i].middle_idx
                /\ wtrace[i - 1].displacements = wtrace[i].displacements
          /\ wtrace[i].raised => i = Len(wtrace) /\ wpc = "exited" /\ wexit = 1
    /\ (wpc = "exited" /\ wargv[3] \notin {"all", "stage1", "stage2", "stage3"}) =>
          /\ wexit # 0
          /\ \A i \in DOMAIN wtrace : wtrace[i].what = "from_file"
    /\ wpc = "exited" => wexit # NoCode

C7_Witness ==
    /\ wargv[3] = "stage3"
    /\ wexit = 0
    /\ Len(wtrace) = 3
    /\ wtrace[3] = Call("run_stage3", 1, "w1", FALSE)

----------------------------------------------------------------------------
(* Claims about serialize_config_to_yaml *)

\* the value as a string: a Path object by its str
AsString(value) ==
    IF value.kind = "path" THEN Value("str", StrOf(PathOf(value.text))) ELSE value

\* the root is a non-empty string naming an absolute path
RootIsUsable == AsString(ycfg["root"]).kind = "str"
                /\ AsString(ycfg["root"]).text # <<>>
                /\ AsString(ycfg["root"]).text[1] = "/"

\* the text names an absolute path whose components start with those of root
UnderRoot(text) ==
    LET p == PathOf(text)
        r == PathOf(AsString(ycfg["root"]).text)
    IN  /\ text # <<>> /\ text[1] = "/"
        /\ p.root = r.root
        /\ Len(r.parts) <= Len(p.parts)
        /\ \A i \in DOMAIN r.parts : p.parts[i] = r.parts[i]

\* w is text relative to root: a relative path that, joined to root, is text
IsRelativeForm(w, text) ==
    /\ w # <<>> /\ w[1] # "/"
    /\ LET r == PathOf(AsString(ycfg["root"]).text)
       IN  [root |-> r.root, parts |-> r.parts \o PathOf(w).parts] = PathOf(text)

Rewritable(f) ==
    /\ f \in {"output_root", "final_results", "center", "flow_options"}
    /\ yprefer
    /\ RootIsUsable
    /\ AsString(ycfg[f]).kind = "str"
    /\ UnderRoot(AsString(ycfg[f]).text)

\* C4: with prefer_relative and a non-empty absolute root, each of output_root,
\* final_results, center and a string flow_options that is an absolute path under
\* root is written relative to root; every other value, root itself and every
\* other field is written as it is (a Path object as its string); without
\* prefer_relative, or with root missing, empty or relative, nothing is rewritten.
\* A path is under root when its components start with those of root, as
\* pathlib compares them: ".." is a component like any other.
C4_RelativeUnderRoot ==
    ypc = "written" =>
        \A f \in ConfigFields :
            IF Rewritable(f)
            THEN /\ ywritten[f].kind = "str"
                 /\ IsRelativeForm(ywritten[f].text, AsString(ycfg[f]).text)
            ELSE ywritten[f] = AsString(ycfg[f])

C4_Witness ==
    /\ ypc = "written"
    /\ yprefer
    /\ ycfg["root"] = Value("path", <<"/", "a">>)
    /\ ycfg["output_root"] = Value("path", <<"/", "a", "/", "a">>)
    /\ ywritten["output_root"] = Value("str", <<"a">>)
    /\ ywritten["pattern"] = Value("str", <<"/", "a", "/", "a">>)

----------------------------------------------------------------------------
(* Claims about SessionConfigForm *)

\* data[name]
ValueOf(data, name) == data[IndexOfName(data, name)].value

\* got is the value v; a Path counts as returned when its text is
SameValue(got, v) == got = v \/ (v.t = "path" /\ got = PyStr(Str(v)))

\* C3: for every bound field and every value v admissible for its annotation,
\* None for an Optional field included, set_form_data({name: v}) and the
\* get_form_data() after it raise nothing, and get_form_data() returns v for
\* that field.
C3_FormRoundTrip ==
    (fpc = "built" /\ fop.field \in NamesOf(fbind)) =>
        /\ fop.name \in {"set_form_data", "get_form_data"} => fop.raised = ""
        /\ fop.name = "get_form_data" => SameValue(ValueOf(fgot, fop.field), fop.value)

CategoryOrder ==
    <<"flow_options", "path_picker", "bool", "int", "float", "Literal", "Enum",
      "dict", "text", "fallback">>

\* the field is of the category, after unwrapping Optional[T]
Matches(category, name, annotation) ==
    LET base == UnwrapOptional(annotation).base IN
    CASE category = "flow_options" -> name = "flow_options"
      [] category = "path_picker" ->
            name \in {"root", "output_root", "final_results", "center"}
      [] category \in {"bool", "int", "float", "Literal", "Enum"} -> base = Plain(category)
      [] category = "dict" -> base = Plain("dict") \/ AnnotationHasType(base, "dict")
      [] category = "text" ->
            base \in {Plain("str"), Plain("Path")} \/ AnnotationHasType(base, "Path")
      [] OTHER -> TRUE

FirstMatching(name, annotation) ==
    CategoryOrder[CHOOSE i \in DOMAIN CategoryOrder :
                     /\ Matches(CategoryOrder[i], name, annotation)
                     /\ \A j \in 1..(i - 1) : ~Matches(CategoryOrder[j], name, annotation)]

\* C8: constructing the form for a model class succeeds, and the form then
\* holds one binding per field of iter_model_fields, in its order, each of the
\* first category that matches the field in the fixed order and with the
\* field's default.
C8_TotalDispatch ==
    fpc \notin {"off", "class"} =>
        /\ fpc = "built"
        /\ Len(fbind) = Len(fclass)
        /\ \A i \in DOMAIN fbind :
              /\ fbind[i].name = fclass[i].name
              /\ fbind[i].binding.category =
                    FirstMatching(fclass[i].name, fclass[i].annotation)
              /\ fbind[i].binding.default = IterModelFields(fclass)[i].default

\* what get_form_data() returns for the bindings, when no getter raises
DataOf(bindings) ==
    [i \in DOMAIN bindings |->
        [name |-> bindings[i].name, value |-> Getter(bindings[i].binding).value]]

\* the bindings of the form of fclass right after its construction
ConstructedBindings ==
    [i \in DOMAIN fclass |->
        [name |-> fclass[i].name,
         binding |-> CreateEditor(fclass[i].name, fclass[i].annotation,
                                  IterModelFields(fclass)[i].default).binding]]

\* the reset value of the category of a binding
ResetValue(b) ==
    CASE b.category = "flow_options" -> PyDict(<<>>)
      [] b.category = "bool" -> PyBool(FALSE)
      [] b.category = "int" -> PyInt(0)
      [] b.category = "float" -> PyFloat(0, 0)
      [] b.category \in {"Literal", "Enum"} -> Options(b.category)[1]
      [] b.category = "dict" -> IF b.optional THEN PyNone ELSE PyDict(<<>>)
      [] b.category \in {"path_picker", "text"} -> IF b.optional THEN PyNone ELSE PyStr(<<>>)
      [] OTHER -> PyStr(<<>>)

\* C11: get_form_data() after reset_to_defaults() raises nothing and returns
\* for each field its default, or the reset value of its category where it has
\* none, which is the data of the form right after construction; and
\* reset_to_defaults() applied to a form that was just reset changes no editor.
C11_ResetRestores ==
    /\ [](fop.after = "reset_to_defaults" /\ fop.name = "get_form_data" =>
            /\ fop.raised = ""
            /\ \A i \in DOMAIN fbind :
                  IF fbind[i].binding.default # MISSING
                  THEN SameValue(fgot[i].value, fbind[i].binding.default)
                  ELSE fgot[i].value = ResetValue(fbind[i].binding)
            /\ fgot = DataOf(ConstructedBindings))
    /\ [][fop.name = "reset_to_defaults" /\ fop'.name = "reset_to_defaults"
            => fbind' = fbind]_vars

\* the binding's editor holds a JSON text: a dict field, or flow_options in
\* inline mode
JsonBearing(b) ==
    b.category = "dict" \/ (b.category = "flow_options" /\ b.editor.mode = "inline")

\* the text is not valid JSON, or parses to something that is no object
NotAnObject(text) == ~JsonLoads(text).ok \/ JsonLoads(text).value.t # "dict"

\* What get_form_data() and to_session_config() do with the JSON-bearing
\* fields, where IsEmpty says which texts count as empty.
JsonLaw(IsEmpty(_)) ==
    fop.name \in {"get_form_data", "to_session_config"} =>
        IF \E i \in DOMAIN fbind :
              /\ JsonBearing(fbind[i].binding)
              /\ ~IsEmpty(fbind[i].binding.editor.text)
              /\ NotAnObject(fbind[i].binding.editor.text)
        THEN fop.raised = "ValueError" /\ ~fop.model /\ fgot = <<>>
        ELSE /\ fop.raised # "ValueError"
             /\ \A i \in DOMAIN fbind :
                   LET b == fbind[i].binding IN
                   /\ JsonBearing(b) /\ IsEmpty(b.editor.text) =>
                         fgot[i].value = IF b.category = "dict" /\ b.optional
                                         THEN PyNone ELSE PyDict(<<>>)
                   /\ JsonBearing(b) /\ ~IsEmpty(b.editor.text) => fgot[i].value.t = "dict"
                   /\ b.category = "flow_options" /\ b.editor.mode = "file" =>
                         fgot[i].value = PyStr(Strip(b.editor.file))

\* neither method changes the content of an editor
ReadsKeepEditors ==
    [][fop'.name \in {"get_form_data", "to_session_config"} => fbind' = fbind]_vars

\* C12, as stated: a JSON text that is non-empty and is not valid JSON or no
\* object makes get_form_data() and to_session_config() raise ValueError and
\* build no model, with every editor unchanged; empty text yields {} (None for
\* an optional dict field); flow_options in file mode returns the stripped
\* path text.
C12_AsStated ==
    /\ [] JsonLaw(LAMBDA text : text = <<>>)
    /\ ReadsKeepEditors

\* C12, amended: the same with the text taken after stripping surrounding
\* whitespace, so a text of blanks counts as empty and yields {} (None for an
\* optional dict field) without an error.
C12_JsonObjectsOnly ==
    /\ [] JsonLaw(LAMBDA text : Strip(text) = <<>>)
    /\ ReadsKeepEditors

C12_Witness ==
    /\ fop.name = "to_session_config"
    /\ fop.raised = "ValueError"
    /\ ~fop.model
    /\ \E i \in DOMAIN fbind :
          /\ fbind[i].binding.category = "flow_options"
          /\ fbind[i].binding.editor.mode = "inline"
          /\ fbind[i].binding.editor.text = <<"[", "]">>

====
